---- MODULE Spec2Model ----
(***************************************************************************)
(* Model of the microblog repository:                                      *)
(*   - migrations/versions/d67dfdca2793_new_fields_in_user_model.py        *)
(*     (upgrade / downgrade of table `user`, revision identifiers)         *)
(*   - app/routes.py (the handlers index and login)                        *)
(***************************************************************************)
EXTENDS Integers, Sequences, FiniteSets, TLC

VARIABLES
    dialect,   \* database engine the migration context is bound to
    db,        \* the database schema and data: table name -> [columns, rows]
    version,   \* the revision recorded as currently applied (alembic_version)
    last,      \* the most recent call of upgrade()/downgrade() and its outcome
    prev,      \* the call before `last`
    app,       \* the module-level application object (routes.py line 2)
    req        \* per request: position in the handler, locals, response

vars == <<dialect, db, version, last, prev, app, req>>

(***************************************************************************)
(* Bounds of the model                                                     *)
(***************************************************************************)
MaxRows == 2
NumRequests == 2

(***************************************************************************)
(* Values                                                                  *)
(***************************************************************************)
None == "None"
NULL == "NULL"

\* Columns a `user` table may hold before this revision, besides `id`.
OptionalColumns == {"username", "email"}
\* Non-null values a row may store in a column.
StoredValues == {"x"}

Dialects == {"postgresql", "mysql", "sqlite"}

(***************************************************************************)
(* Revision identifiers                                                    *)
(***************************************************************************)
revision == "d67dfdca2793"
down_revision_base == None
down_revision == "a934000a9b42"
branch_labels == None
depends_on == None

\* The revision this one revises, as the file's header records it.
Revises == "a934000a9b42"

(***************************************************************************)
(* Column definitions                                                      *)
(***************************************************************************)
AboutMeLength == 140

Column(name, type, length, nullable) ==
    [name |-> name, type |-> type, length |-> length, nullable |-> nullable]

about_me_column == Column("about_me", "String", AboutMeLength, TRUE)
last_seen_column == Column("last_seen", "DateTime", 0, TRUE)

NewColumns == {"about_me", "last_seen"}

(***************************************************************************)
(* Batch operations on one table value t = [columns, rows]                 *)
(***************************************************************************)
\* ALTER TABLE ... ADD COLUMN IF NOT EXISTS: a present column is left alone.
add_column_if_not_exists(t, column) ==
    IF column.name \in DOMAIN t.columns
    THEN [ok |-> TRUE, table |-> t]
    ELSE [ok |-> TRUE,
          table |-> [columns |-> [c \in DOMAIN t.columns \cup {column.name} |->
                                     IF c = column.name THEN column ELSE t.columns[c]],
                     rows |-> [i \in DOMAIN t.rows |->
                                 [c \in DOMAIN t.columns \cup {column.name} |->
                                     IF c = column.name THEN NULL ELSE t.rows[i][c]]]]]

\* ADD COLUMN with a server default: existing rows are backfilled with "".
add_column_backfill(t, column) ==
    IF column.name \in DOMAIN t.columns
    THEN [ok |-> FALSE, table |-> t]
    ELSE [ok |-> TRUE,
          table |-> [columns |-> [c \in DOMAIN t.columns \cup {column.name} |->
                                     IF c = column.name THEN column ELSE t.columns[c]],
                     rows |-> [i \in DOMAIN t.rows |->
                                 [c \in DOMAIN t.columns \cup {column.name} |->
                                     IF c = column.name THEN "" ELSE t.rows[i][c]]]]]

\* batch_op.add_column(column): the column must be absent; no server default
\* is given, so every existing row holds NULL in the new column.
add_column(t, column) ==
    IF column.name \in DOMAIN t.columns
    THEN [ok |-> FALSE, table |-> t]
    ELSE [ok |-> TRUE,
          table |-> [columns |-> [c \in DOMAIN t.columns \cup {column.name} |->
                                     IF c = column.name THEN column ELSE t.columns[c]],
                     rows |-> [i \in DOMAIN t.rows |->
                                 [c \in DOMAIN t.columns \cup {column.name} |->
                                     IF c = column.name THEN NULL ELSE t.rows[i][c]]]]]

\* ALTER TABLE ... DROP COLUMN IF EXISTS: an absent column is no error.
drop_column_if_exists(t, column_name) ==
    [ok |-> TRUE,
     table |-> [columns |-> [c \in DOMAIN t.columns \ {column_name} |-> t.columns[c]],
                rows |-> [i \in DOMAIN t.rows |->
                            [c \in DOMAIN t.columns \ {column_name} |-> t.rows[i][c]]]]]

\* batch_op.drop_column(column_name): the column must be present; the column
\* and the value every row stores in it are removed.
drop_column(t, column_name) ==
    IF column_name \notin DOMAIN t.columns
    THEN [ok |-> FALSE, table |-> t]
    ELSE [ok |-> TRUE,
          table |-> [columns |-> [c \in DOMAIN t.columns \ {column_name} |-> t.columns[c]],
                     rows |-> [i \in DOMAIN t.rows |->
                                 [c \in DOMAIN t.columns \ {column_name} |-> t.rows[i][c]]]]]

AddColumnOp(column) == [op |-> "add_column", column |-> column]
DropColumnOp(column_name) == [op |-> "drop_column", column_name |-> column_name]

apply_op(t, o) ==
    IF o.op = "add_column" THEN add_column(t, o.column)
    ELSE drop_column(t, o.column_name)

\* The operations queued in the batch, applied in order from ops[i] on; stops
\* at the first one that fails.  failed = 0 when all succeeded.
RECURSIVE apply_batch(_, _, _)
apply_batch(t, ops, i) ==
    IF i > Len(ops) THEN [table |-> t, failed |-> 0]
    ELSE LET r == apply_op(t, ops[i])
         IN  IF r.ok THEN apply_batch(r.table, ops, i + 1)
             ELSE [table |-> t, failed |-> i]

\* Whether the engine rolls a failed migration's DDL back.
transactional_ddl(d) == d = "postgresql"

\* Whether the batch is carried out by rebuilding the table (new table, copy,
\* swap): "auto" mode rebuilds on sqlite for anything but add_column.
requires_recreate_in_batch(d, ops) ==
    d = "sqlite" /\ \E i \in DOMAIN ops : ops[i].op # "add_column"

\* with op.batch_alter_table(table_name, schema=None) as batch_op: <ops>
\* The queued operations run when the block is left.
\*   - rebuild: the operations are applied to the reflected table first; the
\*     database is touched only when all of them apply.
\*   - otherwise each operation is one ALTER TABLE statement; when one fails,
\*     the statements before it stay unless the engine's DDL is transactional.
batch_alter_table(database, d, table_name, ops) ==
    IF table_name \notin DOMAIN database
    THEN [result |-> "NoSuchTable", db |-> database]
    ELSE LET run == apply_batch(database[table_name], ops, 1)
             after == [database EXCEPT ![table_name] = run.table]
         IN  IF run.failed = 0 THEN [result |-> "ok", db |-> after]
             ELSE IF requires_recreate_in_batch(d, ops) \/ transactional_ddl(d)
                  THEN [result |-> "SchemaConflict", db |-> database]
                  ELSE [result |-> "SchemaConflict", db |-> after]

(***************************************************************************)
(* upgrade() and downgrade()                                               *)
(***************************************************************************)
upgrade_not_nullable ==
    batch_alter_table(db, dialect, "user",
        << AddColumnOp(Column("about_me", "String", AboutMeLength, FALSE)),
           AddColumnOp(last_seen_column) >>)

upgrade_only_about_me ==
    batch_alter_table(db, dialect, "user", << AddColumnOp(about_me_column) >>)

upgrade ==
    batch_alter_table(db, dialect, "user",
        << AddColumnOp(about_me_column), AddColumnOp(last_seen_column) >>)

downgrade_keeps_about_me ==
    batch_alter_table(db, dialect, "user", << DropColumnOp("last_seen") >>)

downgrade ==
    batch_alter_table(db, dialect, "user",
        << DropColumnOp("last_seen"), DropColumnOp("about_me") >>)


(***************************************************************************)
(* Database states the migration can be run against                        *)
(***************************************************************************)
EmptyDb == [t \in {} |-> NULL]

\* The definition a column of the given name has in table `user`.
ColumnNamed(c) ==
    IF c = "about_me" THEN about_me_column
    ELSE IF c = "last_seen" THEN last_seen_column
    ELSE IF c = "id" THEN Column("id", "Integer", 0, FALSE)
    ELSE Column(c, "String", 0, TRUE)

\* Every table over the column set cols with n rows; row i has id i.
TablesOver(cols, n) ==
    { [columns |-> [c \in cols |-> ColumnNamed(c)],
       rows |-> [i \in 1..n |->
                   [c \in cols |-> IF c = "id" THEN ToString(i) ELSE f[i][c]]]] :
      f \in [1..n -> [cols \ {"id"} -> {NULL} \cup StoredValues]] }

\* Every `user` table whose columns are id, some optional columns and some
\* of the columns in `extra`, with at most MaxRows rows.
UserTables(extra) ==
    UNION { UNION { TablesOver({"id"} \cup o \cup e, n) : n \in 0..MaxRows } :
            <<o, e>> \in (SUBSET OptionalColumns) \X (SUBSET extra) }

NoCall == [op |-> "none", result |-> "none", version |-> None, pre |-> EmptyDb]

(***************************************************************************)
(* Route layer: app/routes.py                                              *)
(***************************************************************************)
Requests == 1..NumRequests
Paths == {"/", "/index", "/login", "/missing"}

\* The rules the @app.route decorators register when the module is imported.
url_map ==
    [p \in {"/", "/index", "/login"} |-> IF p = "/login" THEN "login" ELSE "index"]

Unbound == [class |-> "unbound"]
NoResponse == [error |-> "pending"]
NotFound == [error |-> "NotFound"]

NewFrame == [user |-> Unbound, posts |-> Unbound, form |-> Unbound]

index_user == [username |-> "Miguel"]

index_posts_two ==
    << [author |-> [username |-> "John"], body |-> "Beautiful day in California!"],
       [author |-> [username |-> "Susan"], body |-> "The Barbie movie was so cool!"] >>

index_posts ==
    << [author |-> [username |-> "John"], body |-> "Beautiful day in California!"],
       [author |-> [username |-> "Susan"], body |-> "The Barbie movie was so cool!"],
       [author |-> [username |-> "Tony"], body |-> "God, I love coffee!"] >>

\* LoginForm(): a new form object.
LoginForm == [class |-> "LoginForm"]

\* render_template(name, **context): the view context handed to the template.
render_template(template, context) == [template |-> template, context |-> context]

\* One invocation of index(), run on its own from start to end.
index ==
    render_template("index.html",
        [title |-> "Home", user |-> index_user, posts |-> index_posts])

\* One invocation of login(), run on its own from start to end.
login ==
    render_template("login.html", [title |-> "Sign In", form |-> LoginForm])

FirstLine(endpoint) == IF endpoint = "index" THEN "index_9" ELSE "login_33"

\* A request for path p reaches worker r: the rule of p selects the handler,
\* which starts in a new frame; a path with no rule is answered NotFound.
Dispatch(r, p) ==
    /\ req[r].pc \in {"idle", "done"}
    /\ req' = [req EXCEPT ![r] =
                 IF p \in DOMAIN app.url_map
                 THEN [pc |-> FirstLine(app.url_map[p]), path |-> p,
                       frame |-> NewFrame, response |-> NoResponse]
                 ELSE [pc |-> "done", path |-> p,
                       frame |-> NewFrame, response |-> NotFound]]
    /\ UNCHANGED <<dialect, db, version, last, prev, app>>

\* user = {'username': 'Miguel'}
index_l9(r) ==
    /\ req[r].pc = "index_9"
    /\ req' = [req EXCEPT ![r].frame.user = index_user, ![r].pc = "index_10"]
    /\ UNCHANGED <<dialect, db, version, last, prev, app>>

\* The posts list kept on the application object and appended to by every
\* invocation, instead of a list local to the invocation.
index_l10_on_app(r) ==
    /\ req[r].pc = "index_10"
    /\ LET old == IF "posts" \in DOMAIN app THEN app.posts ELSE << >>
       IN  /\ app' = [k \in DOMAIN app \cup {"posts"} |->
                        IF k = "posts" THEN old \o index_posts ELSE app[k]]
           /\ req' = [req EXCEPT ![r].frame.posts = old \o index_posts,
                                 ![r].pc = "index_24"]
    /\ UNCHANGED <<dialect, db, version, last, prev>>

\* posts = [ {...}, {...}, {...} ]
index_l10(r) ==
    /\ req[r].pc = "index_10"
    /\ req' = [req EXCEPT ![r].frame.posts = index_posts, ![r].pc = "index_24"]
    /\ UNCHANGED <<dialect, db, version, last, prev, app>>

\* return render_template('index.html', title='Home', user=user, posts=posts)
index_l24(r) ==
    /\ req[r].pc = "index_24"
    /\ req' = [req EXCEPT
                 ![r].response = render_template("index.html",
                     [title |-> "Home", user |-> req[r].frame.user,
                      posts |-> req[r].frame.posts]),
                 ![r].pc = "done"]
    /\ UNCHANGED <<dialect, db, version, last, prev, app>>

\* form = LoginForm()
login_l33(r) ==
    /\ req[r].pc = "login_33"
    /\ req' = [req EXCEPT ![r].frame.form = LoginForm, ![r].pc = "login_34"]
    /\ UNCHANGED <<dialect, db, version, last, prev, app>>

\* return render_template('login.html', title='Sign In', form=form)
login_l34(r) ==
    /\ req[r].pc = "login_34"
    /\ req' = [req EXCEPT
                 ![r].response = render_template("login.html",
                     [title |-> "Sign In", form |-> req[r].frame.form]),
                 ![r].pc = "done"]
    /\ UNCHANGED <<dialect, db, version, last, prev, app>>

IdleRequests ==
    [r \in Requests |->
        [pc |-> "idle", path |-> "", frame |-> NewFrame, response |-> NoResponse]]

(***************************************************************************)
(* Calls of upgrade() and downgrade() on a database in any schema state    *)
(***************************************************************************)
\* One call: the database becomes the outcome's, the call is recorded.
Call(name, outcome) ==
    /\ db' = outcome.db
    /\ last' = [op |-> name, result |-> outcome.result, version |-> version, pre |-> db]
    /\ prev' = last

Upgrade ==
    /\ Call("upgrade", upgrade)
    /\ UNCHANGED <<dialect, version, app, req>>

Downgrade ==
    /\ Call("downgrade", downgrade)
    /\ UNCHANGED <<dialect, version, app, req>>

Init ==
    /\ dialect \in Dialects
    /\ \E t \in UserTables(NewColumns) : db = [n \in {"user"} |-> t]
    /\ version = Revises
    /\ last = NoCall
    /\ prev = NoCall
    /\ app = [url_map |-> url_map]
    /\ req = IdleRequests

Next == Upgrade \/ Downgrade

Spec == Init /\ [][Next]_vars

(***************************************************************************)
(* The migration runner: it applies a revision's upgrade only on top of    *)
(* the revisions it names, and records the revision applied                *)
(***************************************************************************)
\* The revisions that must be applied before this one.
Dependencies == IF depends_on = None THEN {} ELSE {depends_on}

\* The step this revision revises: it creates table `user` (without the two
\* new columns) on an empty database.
RunnerUpgradePredecessor ==
    /\ version = None
    /\ \E t \in UserTables({}) :
          /\ t.rows = << >>
          /\ IF "user" \in DOMAIN db
             THEN UNCHANGED <<db, version>>
             ELSE /\ db' = [n \in {"user"} |-> t]
                  /\ version' = Revises
    /\ UNCHANGED <<dialect, last, prev, app, req>>

RunnerUpgrade ==
    /\ version = down_revision
    /\ Dependencies = {}
    /\ Call("upgrade", upgrade)
    /\ version' = IF upgrade.result = "ok" THEN revision ELSE version
    /\ UNCHANGED <<dialect, app, req>>

RunnerDowngrade ==
    /\ version = revision
    /\ Call("downgrade", downgrade)
    /\ version' = IF downgrade.result = "ok" THEN down_revision ELSE version
    /\ UNCHANGED <<dialect, app, req>>

InitRunner ==
    /\ dialect \in Dialects
    /\ \/ version = None /\ db = EmptyDb
       \/ version = Revises /\ \E t \in UserTables({}) : db = [n \in {"user"} |-> t]
    /\ last = NoCall
    /\ prev = NoCall
    /\ app = [url_map |-> url_map]
    /\ req = IdleRequests

NextRunner == RunnerUpgradePredecessor \/ RunnerUpgrade \/ RunnerDowngrade

SpecRunner == InitRunner /\ [][NextRunner]_vars

(***************************************************************************)
(* The web server: requests handled concurrently, one handler line a step  *)
(***************************************************************************)
InitRoutes ==
    /\ dialect = "sqlite"
    /\ db = EmptyDb
    /\ version = None
    /\ last = NoCall
    /\ prev = NoCall
    /\ app = [url_map |-> url_map]
    /\ req = IdleRequests

NextRoutes ==
    \E r \in Requests :
        \/ \E p \in Paths : Dispatch(r, p)
        \/ index_l9(r)
        \/ index_l10(r)
        \/ index_l24(r)
        \/ login_l33(r)
        \/ login_l34(r)

SpecRoutes == InitRoutes /\ [][NextRoutes]_vars


(***************************************************************************)
(* Properties                                                              *)
(***************************************************************************)
\* The column set of table `user` in database d.
ColumnsOf(d) == DOMAIN d["user"].columns

\* The rows of table `user` in database d.
RowsOf(d) == d["user"].rows

Called(c, name) == c.op = name /\ "user" \in DOMAIN c.pre

\* C1: round trip.  When table `user` holds neither about_me nor last_seen,
\* upgrade() followed by downgrade() both succeed and leave the table's
\* column set equal to the one before the upgrade.
C1_RoundTrip ==
    ( /\ Called(prev, "upgrade")
      /\ ColumnsOf(prev.pre) \cap NewColumns = {}
      /\ Called(last, "downgrade") )
    => /\ prev.result = "ok"
       /\ last.result = "ok"
       /\ ColumnsOf(db) = ColumnsOf(prev.pre)

C1_Witness ==
    /\ Called(prev, "upgrade")
    /\ ColumnsOf(prev.pre) = {"id"}
    /\ Called(last, "downgrade")
    /\ ColumnsOf(db) = {"id"}

\* C2: an upgrade() that follows a successful upgrade(), with no downgrade()
\* in between, fails with SchemaConflict.
C2_SecondUpgradeFails ==
    ( /\ Called(prev, "upgrade")
      /\ prev.result = "ok"
      /\ Called(last, "upgrade") )
    => last.result = "SchemaConflict"

C2_Witness ==
    /\ Called(prev, "upgrade")
    /\ prev.result = "ok"
    /\ Called(last, "upgrade")
    /\ last.result = "SchemaConflict"

\* C3: on a table `user` with neither column, upgrade() succeeds, adds
\* exactly about_me (String(140), nullable) and last_seen (DateTime,
\* nullable), keeps every column and row there was, and every row holds
\* NULL in both new columns.
C3_UpgradeAddsNullableColumns ==
    ( /\ Called(last, "upgrade")
      /\ ColumnsOf(last.pre) \cap NewColumns = {} )
    => /\ last.result = "ok"
       /\ ColumnsOf(db) = ColumnsOf(last.pre) \cup NewColumns
       /\ db["user"].columns["about_me"] = Column("about_me", "String", 140, TRUE)
       /\ db["user"].columns["last_seen"] = Column("last_seen", "DateTime", 0, TRUE)
       /\ \A c \in ColumnsOf(last.pre) :
             db["user"].columns[c] = last.pre["user"].columns[c]
       /\ DOMAIN RowsOf(db) = DOMAIN RowsOf(last.pre)
       /\ \A i \in DOMAIN RowsOf(db) :
             /\ RowsOf(db)[i]["about_me"] = NULL
             /\ RowsOf(db)[i]["last_seen"] = NULL
             /\ \A c \in ColumnsOf(last.pre) : RowsOf(db)[i][c] = RowsOf(last.pre)[i][c]

C3_Witness ==
    /\ Called(last, "upgrade")
    /\ ColumnsOf(last.pre) = {"id"}
    /\ DOMAIN RowsOf(last.pre) # {}
    /\ ColumnsOf(db) = {"id", "about_me", "last_seen"}

\* C4: a call of upgrade() or downgrade() that fails leaves the column set
\* of table `user` as it was before the call.
C4_FailedCallLeavesSchema ==
    ( /\ last.op \in {"upgrade", "downgrade"}
      /\ "user" \in DOMAIN last.pre
      /\ last.result # "ok" )
    => ColumnsOf(db) = ColumnsOf(last.pre)

\* C5: downgrade() on a table `user` that lacks about_me or last_seen fails
\* with SchemaConflict.
C5_DowngradeAbsentFails ==
    ( /\ Called(last, "downgrade")
      /\ ~ (NewColumns \subseteq ColumnsOf(last.pre)) )
    => last.result = "SchemaConflict"

C5_Witness ==
    /\ Called(prev, "downgrade")
    /\ prev.result = "ok"
    /\ Called(last, "downgrade")
    /\ last.result = "SchemaConflict"

\* C6: the runner executes upgrade() of this revision only when the
\* revision recorded as applied is a934000a9b42, the one it revises, whose
\* table `user` is then in place; the revision names no other dependency
\* and no branch label.
C6_UpgradeOnlyAfterPredecessor ==
    last.op = "upgrade"
    => /\ last.version = "a934000a9b42"
       /\ "user" \in DOMAIN last.pre
       /\ Dependencies = {}
       /\ branch_labels = None

C6_Witness ==
    /\ last.op = "upgrade"
    /\ last.version = "a934000a9b42"
    /\ last.result = "ok"
    /\ version = "d67dfdca2793"

\* C7: every finished invocation of index(), reached through `/` or
\* `/index`, returned title "Home", the fixed user, and exactly the three
\* posts of John, Susan and Tony in that order, none with an empty author
\* name or body.
C7_IndexContext ==
    \A r \in Requests :
        (req[r].pc = "done" /\ req[r].path \in {"/", "/index"})
        => /\ DOMAIN req[r].response = {"template", "context"}
           /\ LET ctx == req[r].response.context
              IN  /\ ctx.title = "Home"
                  /\ ctx.user = [username |-> "Miguel"]
                  /\ Len(ctx.posts) = 3
                  /\ ctx.posts[1].author.username = "John"
                  /\ ctx.posts[2].author.username = "Susan"
                  /\ ctx.posts[3].author.username = "Tony"
                  /\ \A i \in 1..3 : /\ ctx.posts[i].author.username # ""
                                     /\ ctx.posts[i].body # ""

C7_Witness ==
    \E r, q \in Requests :
        /\ req[r].pc = "done" /\ req[r].path = "/"
        /\ req[q].pc = "done" /\ req[q].path = "/index"
        /\ req[r].response = req[q].response

\* What the handler serving path p returns when run alone.
Isolated(p) ==
    IF p \in {"/", "/index"} THEN index
    ELSE IF p = "/login" THEN login
    ELSE NotFound

\* C8: under every interleaving of invocations, a step of one invocation
\* changes neither the application object nor anything of another
\* invocation, and every invocation that finishes returns what its handler
\* returns when run alone (index: "Home" with the three posts; login:
\* "Sign In" with a form).
C8_HandlersIndependent ==
    [][ /\ app' = app
        /\ \A r, q \in Requests : (r # q /\ req'[r] # req[r]) => req'[q] = req[q]
        /\ \A r \in Requests :
              req'[r].pc = "done" =>
                 /\ req'[r].response = Isolated(req'[r].path)
                 /\ req'[r].path = "/login" =>
                       /\ req'[r].response.context.title = "Sign In"
                       /\ req'[r].response.context.form # Unbound
      ]_vars

C8_Witness ==
    \E r, q \in Requests :
        /\ req[r].pc = "done" /\ req[r].path = "/login"
        /\ req[r].response.context.form = LoginForm
        /\ req[q].pc = "index_24"

\* C9: after a successful downgrade() followed by a successful upgrade(),
\* both columns exist, every row holds NULL in both whatever it stored
\* there before the downgrade, and every other column of every row holds
\* the value it held before the downgrade.
C9_DowngradeDiscardsData ==
    ( /\ Called(prev, "downgrade")
      /\ prev.result = "ok"
      /\ Called(last, "upgrade")
      /\ last.result = "ok" )
    => /\ NewColumns \subseteq ColumnsOf(db)
       /\ DOMAIN RowsOf(db) = DOMAIN RowsOf(prev.pre)
       /\ \A i \in DOMAIN RowsOf(db) :
             /\ RowsOf(db)[i]["about_me"] = NULL
             /\ RowsOf(db)[i]["last_seen"] = NULL
             /\ \A c \in ColumnsOf(prev.pre) \ NewColumns :
                   RowsOf(db)[i][c] = RowsOf(prev.pre)[i][c]

C9_Witness ==
    /\ Called(prev, "downgrade")
    /\ prev.result = "ok"
    /\ Called(last, "upgrade")
    /\ last.result = "ok"
    /\ "username" \in ColumnsOf(prev.pre)
    /\ \E i \in DOMAIN RowsOf(prev.pre) :
          /\ RowsOf(prev.pre)[i]["about_me"] # NULL
          /\ RowsOf(prev.pre)[i]["last_seen"] # NULL
          /\ RowsOf(prev.pre)[i]["username"] # NULL
          /\ RowsOf(db)[i]["about_me"] = NULL

\* C10: driven by the runner from a database at a934000a9b42 whose table
\* `user` has neither column, about_me and last_seen are both present or
\* both absent, and both present exactly when the recorded revision is
\* d67dfdca2793.
C10_ColumnsMatchRevision ==
    "user" \in DOMAIN db
    => /\ ("about_me" \in ColumnsOf(db)) <=> ("last_seen" \in ColumnsOf(db))
       /\ (NewColumns \subseteq ColumnsOf(db)) <=> (version = "d67dfdca2793")

C10_Witness ==
    /\ Called(prev, "downgrade")
    /\ Called(last, "upgrade")
    /\ version = "d67dfdca2793"
    /\ NewColumns \subseteq ColumnsOf(db)

====
